---- MODULE Spec2Model ----
(***************************************************************************)
(* Model of viva_tech_banking_scraper.py: the stepwise scroll of the       *)
(* partners page, the collection of the company blocks, the fetch of each  *)
(* company page with retries, and the extraction of booth, homepage,       *)
(* categories and overview from the parsed page.                           *)
(*                                                                         *)
(* A text (an element's text, an href) is a sequence of tokens.  The token *)
(* " " is one whitespace character, "dq" "lq" "rq" are the three quote     *)
(* characters of _extract_booth, "http" is the prefix http, every other    *)
(* token is a run of characters with no whitespace and no quote in it.     *)
(***************************************************************************)
EXTENDS Integers, Sequences, FiniteSets, TLC

\* ------------------------------------------------------------------ bounds
\* Longest anchor list of a parsed page drawn in SpecExtract.
MaxAnchors == 3
\* Longest list of category chips and of booth spans drawn in SpecExtract.
MaxChips == 3
MaxBooths == 2
\* Most company blocks a listing page of SpecDiscovery holds.
MaxBlocks == 3
\* Most company blocks the listing page of Spec holds, so the most links
\* enrich_companies is given there.
MaxLinks == 2
\* The scroll loop of the model stops being followed after this many
\* iterations (the code's loop has no bound of its own).
MaxScrollIters == 602
\* Largest viewport height, initial document height and growth per append.
MaxView == 2
MaxHeight == 3

\* --------------------------------------------------------------- constants
MAX_RETRIES == 3

BASE_URL == <<"http", "vivatechnology.com">>

TARGET_CATEGORIES ==
    { "Artificial Intelligence", "Connectivity, Cloud & Infrastructure",
      "Cybersecurity", "Deep Tech & Quantum Computing", "Edtech", "Energy",
      "Food & Agriculture", "HR & Future of Work", "Healthcare & Wellness",
      "Industry & Supply Chain", "Luxury, Fashion & Cosmetics",
      "Marketing & Advertising", "Mobility & Smart Cities",
      "Retail & E-commerce", "Space, Aeronautics & Defense" }

\* ------------------------------------------------------- values and results
\* The value of a name that no statement of the file binds.
Unbound == "Unbound"

\* The outcome of evaluating an expression or a call: a value, or an exception.
Return(v) == [kind |-> "return", value |-> v]
Raise(e) == [kind |-> "raise", value |-> e]

\* ------------------------------------------------------------ text helpers
Whitespace == {" "}
Quotes == {"dq", "lq", "rq"}

RECURSIVE LStrip(_, _)
\* s with its leading tokens that are in drop removed
LStrip(s, drop) ==
    IF s # <<>> /\ Head(s) \in drop THEN LStrip(Tail(s), drop) ELSE s

RECURSIVE RStrip(_, _)
RStrip(s, drop) ==
    IF s # <<>> /\ s[Len(s)] \in drop
    THEN RStrip(SubSeq(s, 1, Len(s) - 1), drop)
    ELSE s

\* str.strip(): leading and trailing whitespace removed
Strip(s) == RStrip(LStrip(s, Whitespace), Whitespace)

\* str.strip('"“”'): leading and trailing quote characters removed
StripQuotes(s) == RStrip(LStrip(s, Quotes), Quotes)

\* str.lower() of one token
LowerTok(t) ==
    CASE t = "Language" -> "language"
      [] t = "LANGUAGE" -> "language"
      [] t = "Startup" -> "startup"
      [] t = "STARTUP" -> "startup"
      [] t = "Privacy" -> "privacy"
      [] t = "Cookie" -> "cookie"
      [] OTHER -> t

Lower(s) == [i \in 1..Len(s) |-> LowerTok(s[i])]

\* needle in s, for a needle that is one token
Contains(s, needle) == \E i \in 1..Len(s) : s[i] = needle

\* s.startswith("http")
StartsWithHttp(s) == s # <<>> /\ s[1] = "http"

RECURSIVE Join(_, _)
\* sep.join(parts)
Join(parts, sep) ==
    IF parts = <<>> THEN <<>>
    ELSE IF Len(parts) = 1 THEN parts[1]
    ELSE parts[1] \o <<sep>> \o Join(Tail(parts), sep)

\* ------------------------------------------------------- page parsing
\* A parsed company page (the soup) is a record
\*   anchors  : the <a> elements in document order, each
\*              [labelSpan: it holds a <span class="label symbols">,
\*               text: its text, hasHref: it has an href attribute,
\*               href: the attribute's value]
\*   booths   : the span.ml-1.uppercase elements in document order, each
\*              [inTextXs: it is inside a div.text-xs,
\*               afterSymbols: it directly follows a span.symbols, text]
\*   chips    : the texts of the category chip spans in document order
\*   overview : the texts of the div.my-4.text-xs.leading-relaxed elements

\* SOCIAL_RE is read at lines 174 and 178 and bound nowhere in the file.
SOCIAL_RE == Unbound

\* SOCIAL_RE.search(href): a NameError while the name is unbound
SOCIAL_RE_search(href) ==
    IF SOCIAL_RE = Unbound
    THEN Raise(<<"NameError">>)
    ELSE Return(\E i \in 1..Len(href) : href[i] \in SOCIAL_RE)

RECURSIVE LabelledLoop(_, _)
\* the first loop of _first_homepage from anchor i on; "fallthrough" when the
\* loop ends without returning
LabelledLoop(anchors, i) ==
    IF i > Len(anchors) THEN [kind |-> "fallthrough", value |-> <<>>]
    ELSE LET a == anchors[i] IN
         IF a.hasHref /\ a.labelSpan
            /\ Contains(Lower(Strip(a.text)), "language")
         THEN LET href == Strip(a.href) IN
              IF StartsWithHttp(href)
              THEN LET s == SOCIAL_RE_search(href) IN
                   IF s.kind = "raise" THEN s
                   ELSE IF ~s.value THEN Return(href)
                   ELSE LabelledLoop(anchors, i + 1)
              ELSE LabelledLoop(anchors, i + 1)
         ELSE LabelledLoop(anchors, i + 1)

RECURSIVE FallbackLoop(_, _)
\* the second loop of _first_homepage from anchor i on
FallbackLoop(anchors, i) ==
    IF i > Len(anchors) THEN Return(<<>>)
    ELSE LET a == anchors[i] IN
         IF ~a.hasHref THEN FallbackLoop(anchors, i + 1)
         ELSE LET href == Strip(a.href) IN
              IF StartsWithHttp(href) /\ ~Contains(href, "vivatechnology.com")
              THEN LET s == SOCIAL_RE_search(href) IN
                   IF s.kind = "raise" THEN s
                   ELSE IF ~s.value /\ ~Contains(Lower(href), "privacy")
                           /\ ~Contains(Lower(href), "cookie")
                        THEN Return(href)
                        ELSE FallbackLoop(anchors, i + 1)
              ELSE FallbackLoop(anchors, i + 1)

_first_homepage(soup) ==
    LET first == LabelledLoop(soup.anchors, 1) IN
    IF first.kind # "fallthrough" THEN first
    ELSE FallbackLoop(soup.anchors, 1)

\* the three selectors of _extract_booth, as predicates on a booth span
BoothSelectors ==
    << [textXs |-> TRUE, symbols |-> FALSE],
       [textXs |-> FALSE, symbols |-> TRUE],
       [textXs |-> FALSE, symbols |-> FALSE] >>

Matches(sel, el) ==
    /\ sel.textXs => el.inTextXs
    /\ sel.symbols => el.afterSymbols

\* soup.select_one(sel): the matching elements in document order; the code
\* takes the first one, and None when there is none
SelectOne(els, sel) == SelectSeq(els, LAMBDA el : Matches(sel, el))

RECURSIVE BoothLoopStopOnEmpty(_, _)
\* the loop with "if tag: return txt": an empty text ends the chain
BoothLoopStopOnEmpty(els, k) ==
    IF k > Len(BoothSelectors) THEN <<>>
    ELSE LET tag == SelectOne(els, BoothSelectors[k]) IN
         IF tag # <<>>
         THEN StripQuotes(Strip(tag[1].text))
         ELSE BoothLoopStopOnEmpty(els, k + 1)

RECURSIVE BoothLoop(_, _)
BoothLoop(els, k) ==
    IF k > Len(BoothSelectors) THEN <<>>
    ELSE LET tag == SelectOne(els, BoothSelectors[k]) IN
         IF tag # <<>>
         THEN LET txt == StripQuotes(Strip(tag[1].text)) IN
              IF txt # <<>> THEN txt ELSE BoothLoop(els, k + 1)
         ELSE BoothLoop(els, k + 1)

_extract_booth(soup) == Return(BoothLoop(soup.booths, 1))

RECURSIVE DedupAdjacent(_, _)
\* a filter that remembers the previous text only
DedupAdjacent(cats, seen) ==
    IF cats = <<>> THEN <<>>
    ELSE IF Head(cats) \in seen THEN DedupAdjacent(Tail(cats), seen)
    ELSE <<Head(cats)>> \o DedupAdjacent(Tail(cats), {Head(cats)})

RECURSIVE Dedup(_, _)
\* [c for c in cats if not (c in seen or seen.add(c))]
Dedup(cats, seen) ==
    IF cats = <<>> THEN <<>>
    ELSE IF Head(cats) \in seen THEN Dedup(Tail(cats), seen)
    ELSE <<Head(cats)>> \o Dedup(Tail(cats), seen \cup {Head(cats)})

StripAll(texts) == [i \in 1..Len(texts) |-> Strip(texts[i])]

_extract_categories(soup) == Return(Join(Dedup(StripAll(soup.chips), {}), ", "))

_extract_overview(soup) == Return(Join(StripAll(soup.overview), "\n"))

\* ------------------------------------------------------------------ state
VARIABLES
    pc,            \* where main is: "make_driver", "get", "scroll_init", "scroll",
                   \* "find_blocks", "blocks", "enrich", "report", "done", "main_error"
    page,          \* the listing page: how it is laid out and how it loads lazily
    docHeight,     \* document.body.scrollHeight of the listing page
    revealed,      \* how many company blocks the listing page has rendered
    discDriverOpen, \* the driver of collect_sector_companies is open
    view, total, pos,  \* the locals of _scroll_full_page
    scrollIters,   \* iterations of the scroll loop so far
    blocks, bidx,  \* the blocks found and the index of the next one to parse
    companies,     \* the list collect_sector_companies builds and returns
    fpc,           \* where _fetch_html is: "idle", "attempt", "backoff",
                   \* "returned", "raised"
    attempt,       \* the loop variable i of _fetch_html
    attemptsMade,  \* executions of the try body in the current call
    waits,         \* the arguments of the time.sleep calls of the except clause
    warned,        \* the exceptions named in the warnings of the except clause
    fetchDriversOpen,  \* drivers made by _fetch_html and not quit
    fres,          \* what _fetch_html returned or raised
    eidx,          \* the index of the company enrich_companies is at
    enriched,      \* the list enrich_companies builds and returns
    outcomes,      \* per company processed: "record", "fetch_failed", "extract_failed"
    csvRows        \* the rows written to sector_companies.csv

vars == << pc, page, docHeight, revealed, discDriverOpen, view, total, pos,
           scrollIters, blocks, bidx, companies, fpc, attempt, attemptsMade,
           waits, warned, fetchDriversOpen, fres, eidx, enriched, outcomes,
           csvRows >>

discVars == << page, docHeight, revealed, discDriverOpen, view, total, pos,
               scrollIters, blocks, bidx, companies >>
fetchVars == << fpc, attempt, attemptsMade, waits, warned, fetchDriversOpen,
               fres >>
enrichVars == << eidx, enriched, outcomes >>

\* ------------------------------------------------------------ environment
\* A listing page holds `items` company blocks, `shown` of them rendered at
\* load, in a window of inner height `view`.  Each time the viewport reaches
\* the bottom of the document while blocks are still missing, the page
\* appends the next block and the document grows by `grow`; an endless page
\* keeps growing after its blocks are out.  A prompt page has appended by the
\* time the statement after the scroll runs; any other page needs part of the
\* SCROLL_PAUSE sleep for it.
ListingPages ==
    { p \in [ view : 1..MaxView, height : 1..MaxHeight, grow : 1..MaxView,
              items : 0..MaxBlocks, shown : 0..1, endless : BOOLEAN,
              prompt : BOOLEAN ] :
        p.shown <= p.items }

\* The listing pages of Spec: the stepwise scroll brings out every block.
MainPages ==
    { p \in ListingPages :
        /\ p.items <= MaxLinks
        /\ p.view = 1 /\ p.height = 1 /\ p.grow = 1
        /\ ~p.endless }

\* The company blocks a listing page can render.  hasFlexDiv, flexIsBadge and
\* flexText describe the first div.w-full.flex of the block: whether there is
\* one, whether it is the startup pill or a layout container that happens to
\* carry the two classes, and its text with that of its descendants.
BlockKinds ==
    LET base == [ hasCatDiv |-> TRUE, cats |-> << <<" ", "Energy", " ">> >>,
                  hasNameEl |-> TRUE, name |-> <<"Acme", " ">>,
                  hasHref |-> TRUE,
                  href |-> <<"http", "vivatechnology.com", "/partners/acme">>,
                  hasFlexDiv |-> TRUE, flexIsBadge |-> TRUE,
                  flexText |-> <<"STARTUP">> ]
    IN { base,
         \* the pill of a company that is no startup
         [base EXCEPT !.flexText = <<"Scaleup">>],
         \* the same company through a relative href, no div.w-full.flex
         [base EXCEPT !.href = <<"/partners/acme">>, !.hasFlexDiv = FALSE,
                      !.flexIsBadge = FALSE, !.flexText = <<>>],
         \* another company with no pill; its first div.w-full.flex is a
         \* container whose prose mentions startups
         [base EXCEPT !.name = <<"Bolt">>,
                      !.flexIsBadge = FALSE,
                      !.cats = << <<"Fintech">>, <<"Edtech">> >>,
                      !.href = <<"http", "vivatechnology.com", "/partners/bolt">>,
                      !.flexText = <<"We", " ", "fund", " ", "startup", "s">>],
         \* no target category
         [base EXCEPT !.cats = << <<"Fintech">>, <<"energy">> >>],
         \* no category container: find_element raises
         [base EXCEPT !.hasCatDiv = FALSE, !.cats = <<>>],
         \* an <a> with no href: get_attribute gives None
         [base EXCEPT !.hasHref = FALSE, !.href = <<>>] }

Anchor(label, text, href) ==
    [labelSpan |-> label, text |-> text, hasHref |-> TRUE, href |-> href]

\* A page with none of the elements.
NoPage == [ anchors |-> <<>>, booths |-> <<>>, chips |-> <<>>, overview |-> <<>> ]

\* The company pages the renderer can return.
ProfilePages ==
    { \* a page with the labelled website link after a social link
      [ anchors |-> << Anchor(FALSE, <<"LinkedIn">>, <<"http", "linkedin.com">>),
                       Anchor(TRUE, <<"language", " ", "Website">>,
                              <<"http", "acme.com">>) >>,
        booths |-> << [inTextXs |-> TRUE, afterSymbols |-> TRUE,
                       text |-> <<"dq", "A12", "dq">>] >>,
        chips |-> << <<"Energy">>, <<"Edtech">>, <<"Energy">> >>,
        overview |-> << <<"We", " ", "build">> >> ],
      \* a page whose anchors are relative or on the site's own domain
      [ anchors |-> << Anchor(FALSE, <<"Home">>, <<"/">>),
                       Anchor(FALSE, <<"Partners">>,
                              <<"http", "vivatechnology.com", "/partners">>) >>,
        booths |-> << [inTextXs |-> FALSE, afterSymbols |-> FALSE,
                       text |-> <<"B7">>] >>,
        chips |-> << <<"Energy">> >>,
        overview |-> <<>> ],
      NoPage }

\* What _fetch_html gives its caller: the page source, or the exception.
FetchReturn(html) == [kind |-> "return", html |-> html, error |-> <<>>]
FetchRaise(e) == [kind |-> "raise", html |-> NoPage, error |-> e]

\* ------------------------------------------------------------------- Init
Init ==
    /\ pc = "make_driver"
    /\ page \in MainPages
    /\ docHeight = page.height
    /\ revealed = page.shown
    /\ discDriverOpen = FALSE
    /\ view = 0 /\ total = 0 /\ pos = 0 /\ scrollIters = 0
    /\ blocks = <<>> /\ bidx = 1
    /\ companies = <<>>
    /\ fpc = "idle" /\ attempt = 0 /\ attemptsMade = 0 /\ waits = <<>>
    /\ warned = <<>>
    /\ fetchDriversOpen = 0
    /\ fres = FetchReturn(NoPage)
    /\ eidx = 1 /\ enriched = <<>> /\ outcomes = <<>>
    /\ csvRows = <<>>

\* ----------------------------------------------- collect_sector_companies
RECURSIVE SeqsOfLen(_, _)
\* the sequences of length n over S
SeqsOfLen(S, n) ==
    IF n = 0 THEN {<<>>}
    ELSE {Append(q, x) : q \in SeqsOfLen(S, n - 1), x \in S}

\* window.scrollTo(0, y) puts the bottom of the viewport at the bottom of the
\* document when y + innerHeight reaches the document height
ReachesBottom(y) == y + page.view >= docHeight

\* the page appends on a scroll to y
Appends(y) == ReachesBottom(y) /\ (revealed < page.items \/ page.endless)

Min(a, b) == IF a <= b THEN a ELSE b

\* _make_driver(HEADLESS), line 119: outside the try, so a failure leaves no
\* driver and goes straight to the except clause of main
MakeDriver ==
    /\ pc = "make_driver"
    /\ \E ok \in BOOLEAN :
         IF ok THEN discDriverOpen' = TRUE /\ pc' = "get"
         ELSE discDriverOpen' = FALSE /\ pc' = "main_error"
    /\ UNCHANGED << page, docHeight, revealed, view, total, pos, scrollIters,
                    blocks, bidx, companies, fetchVars, enrichVars, csvRows >>

\* driver.get(PAGE_URL)
GetPage ==
    /\ pc = "get"
    /\ pc' = "scroll_init"
    /\ UNCHANGED << discVars, fetchVars, enrichVars, csvRows >>

\* lines 104-106
ScrollInit ==
    /\ pc = "scroll_init"
    /\ total' = docHeight
    /\ view' = page.view
    /\ pos' = 0
    /\ pc' = "scroll"
    /\ UNCHANGED << page, docHeight, revealed, discDriverOpen, scrollIters,
                    blocks, bidx, companies, fetchVars, enrichVars, csvRows >>

\* an iteration whose scroll may land one unit past the step
ScrollStepJitter ==
    /\ pc = "scroll"
    /\ pos < total
    /\ scrollIters < MaxScrollIters
    /\ docHeight' = IF Appends(pos) THEN docHeight + page.grow ELSE docHeight
    /\ revealed' = IF Appends(pos) THEN Min(page.items, revealed + 1) ELSE revealed
    /\ pos' \in {pos + view, pos + view + 1}
    /\ total' = docHeight'
    /\ scrollIters' = scrollIters + 1
    /\ UNCHANGED << pc, page, discDriverOpen, view, blocks, bidx, companies,
                    fetchVars, enrichVars, csvRows >>

\* one iteration of the while loop, lines 107-111
ScrollStep ==
    /\ pc = "scroll"
    /\ pos < total
    /\ scrollIters < MaxScrollIters
    /\ docHeight' = IF Appends(pos) THEN docHeight + page.grow ELSE docHeight
    /\ revealed' = IF Appends(pos) THEN Min(page.items, revealed + 1) ELSE revealed
    /\ pos' = pos + view
    /\ total' = docHeight'
    /\ scrollIters' = scrollIters + 1
    /\ UNCHANGED << pc, page, discDriverOpen, view, blocks, bidx, companies,
                    fetchVars, enrichVars, csvRows >>

\* the loop ends; line 112 scrolls to the bottom once more.  Nothing waits
\* after it: only what a prompt page appends on this scroll is in the DOM
\* when line 125 queries it.
ScrollFinish ==
    /\ pc = "scroll"
    /\ ~(pos < total)
    /\ IF page.prompt /\ Appends(docHeight)
       THEN /\ docHeight' = docHeight + page.grow
            /\ revealed' = Min(page.items, revealed + 1)
       ELSE UNCHANGED << docHeight, revealed >>
    /\ pc' = "find_blocks"
    /\ UNCHANGED << page, discDriverOpen, view, total, pos, scrollIters,
                    blocks, bidx, companies, fetchVars, enrichVars, csvRows >>

\* driver.find_elements(...), line 125: the blocks rendered so far
FindBlocks ==
    /\ pc = "find_blocks"
    /\ blocks' \in SeqsOfLen(BlockKinds, revealed)
    /\ bidx' = 1
    /\ pc' = "blocks"
    /\ UNCHANGED << page, docHeight, revealed, discDriverOpen, view, total,
                    pos, scrollIters, companies, fetchVars, enrichVars, csvRows >>

\* the try body without the test of line 131
ParseBlockNoFilter(b) ==
    IF ~b.hasCatDiv THEN Raise(<<"NoSuchElementException">>)
    ELSE IF ~b.hasNameEl THEN Raise(<<"NoSuchElementException">>)
    ELSE IF ~b.hasHref THEN Raise(<<"AttributeError">>)
    ELSE Return(<< [ name |-> Strip(b.name),
                     url |-> IF StartsWithHttp(b.href) THEN b.href
                             ELSE BASE_URL \o b.href,
                     startup |-> IF b.hasFlexDiv
                                    /\ Contains(Lower(b.flexText), "startup")
                                 THEN <<"startup">> ELSE <<>> ] >>)

\* the try body of the block loop, lines 129-142: the company to append
\* (a list of one), no company (continue), or the exception
ParseBlock(b) ==
    IF ~b.hasCatDiv THEN Raise(<<"NoSuchElementException">>)
    ELSE LET cats == StripAll(b.cats) IN
         IF ~\E i \in 1..Len(cats) : \E c \in TARGET_CATEGORIES : cats[i] = <<c>>
         THEN Return(<<>>)
         ELSE IF ~b.hasNameEl THEN Raise(<<"NoSuchElementException">>)
         ELSE IF ~b.hasHref THEN Raise(<<"AttributeError">>)
         ELSE Return(<< [ name |-> Strip(b.name),
                          url |-> IF StartsWithHttp(b.href) THEN b.href
                                  ELSE BASE_URL \o b.href,
                          startup |-> IF b.hasFlexDiv
                                         /\ Contains(Lower(b.flexText), "startup")
                                      THEN <<"startup">> ELSE <<>> ] >>)

\* one iteration of the block loop, lines 127-144
CollectBlock ==
    /\ pc = "blocks"
    /\ bidx <= Len(blocks)
    /\ LET r == ParseBlock(blocks[bidx]) IN
         companies' = IF r.kind = "return" THEN companies \o r.value ELSE companies
    /\ bidx' = bidx + 1
    /\ UNCHANGED << pc, page, docHeight, revealed, discDriverOpen, view, total,
                    pos, scrollIters, blocks, fetchVars, enrichVars, csvRows >>

\* return companies, through the finally clause (driver.quit())
CollectReturn ==
    /\ pc = "blocks"
    /\ bidx > Len(blocks)
    /\ discDriverOpen' = FALSE
    /\ pc' = "enrich"
    /\ UNCHANGED << page, docHeight, revealed, view, total, pos, scrollIters,
                    blocks, bidx, companies, fetchVars, enrichVars, csvRows >>

\* the same with no finally clause: the driver is left as it is
CollectRaiseNoQuit ==
    /\ pc \in {"get", "scroll_init", "scroll", "find_blocks"}
    /\ pc' = "main_error"
    /\ UNCHANGED << discVars, fetchVars, enrichVars, csvRows >>

\* a driver call inside the try of collect_sector_companies raises: the
\* finally clause quits the driver and the exception reaches main
CollectRaise ==
    /\ pc \in {"get", "scroll_init", "scroll", "find_blocks"}
    /\ discDriverOpen' = FALSE
    /\ pc' = "main_error"
    /\ UNCHANGED << page, docHeight, revealed, view, total, pos, scrollIters,
                    blocks, bidx, companies, fetchVars, enrichVars, csvRows >>

\* ------------------------------------------------------------ _fetch_html
\* The ways one execution of the try body, lines 156-161, can end: _make_driver
\* raises, d.get raises, d.page_source raises, or the page source is returned.
AttemptOutcomes == {"make_fail", "get_fail", "source_fail", "ok"}

\* the loop written as range(1, MAX_RETRIES)
LastAttemptEarly(i) == i >= MAX_RETRIES - 1

\* for i in range(1, MAX_RETRIES+1): i is the last value of the loop
LastAttempt(i) == i >= MAX_RETRIES

\* a backoff that does not grow with the attempt
BackoffFlat(i) == 2

\* the argument of time.sleep at line 164
Backoff(i) == 2 * i

\* one execution of the try body and, when it raises, the entry of the except
\* clause up to the call of time.sleep(2*i)
FetchAttempt ==
    /\ fpc = "attempt"
    /\ attemptsMade' = attemptsMade + 1
    /\ \E outcome \in AttemptOutcomes :
         IF outcome = "ok"
         THEN /\ \E html \in ProfilePages : fres' = FetchReturn(html)
              /\ fpc' = "returned"
              /\ UNCHANGED << waits, warned, fetchDriversOpen >>
         ELSE /\ fetchDriversOpen' = IF outcome = "make_fail"
                                     THEN fetchDriversOpen
                                     ELSE fetchDriversOpen + 1
              /\ warned' = Append(warned, outcome)
              /\ waits' = Append(waits, Backoff(attempt))
              /\ fpc' = "backoff"
              /\ UNCHANGED fres
    /\ UNCHANGED << pc, discVars, attempt, enrichVars, csvRows >>

\* time.sleep(2*i) returns: the next iteration, or line 165 after the last
FetchBackoffDone ==
    /\ fpc = "backoff"
    /\ IF LastAttempt(attempt)
       THEN /\ fpc' = "raised"
            /\ fres' = FetchRaise(<<"RuntimeError", "Failed to fetch ">>
                                  \o companies[eidx].url)
            /\ UNCHANGED attempt
       ELSE /\ fpc' = "attempt"
            /\ attempt' = attempt + 1
            /\ UNCHANGED fres
    /\ UNCHANGED << pc, discVars, attemptsMade, waits, warned,
                    fetchDriversOpen, enrichVars, csvRows >>

\* ------------------------------------------------------- enrich_companies
\* lines 212-217: the record to append, or the exception an extractor raised
ExtractRecord(comp, html) ==
    LET soup == html
        booth == _extract_booth(soup)
        homepage == _first_homepage(soup)
        cats == _extract_categories(soup)
        overview == _extract_overview(soup)
    IN  IF booth.kind = "raise" THEN booth
        ELSE IF homepage.kind = "raise" THEN homepage
        ELSE IF cats.kind = "raise" THEN cats
        ELSE IF overview.kind = "raise" THEN overview
        ELSE Return([ name |-> comp.name, url |-> comp.url,
                      startup |-> comp.startup, booth |-> booth.value,
                      homepage |-> homepage.value,
                      categories_detail |-> cats.value,
                      overview |-> overview.value ])

\* an except clause that leaves the loop
AfterFailureAbort(i) == Len(companies) + 1

\* the index the loop of enrich_companies goes to after the except clause
AfterFailure(i) == i + 1

\* line 211: the call of _fetch_html for the next company
EnrichCall ==
    /\ pc = "enrich"
    /\ fpc = "idle"
    /\ eidx <= Len(companies)
    /\ fpc' = "attempt"
    /\ attempt' = 1
    /\ attemptsMade' = 0
    /\ waits' = <<>>
    /\ warned' = <<>>
    /\ UNCHANGED << pc, discVars, fetchDriversOpen, fres, enrichVars, csvRows >>

\* a record put at the front of the list
AddRecordFront(list, r) == <<r>> \o list

\* enriched.append(...), line 217
AddRecord(list, r) == Append(list, r)

\* _fetch_html returned: lines 212-217, or the except clause when an
\* extractor raises
EnrichExtract ==
    /\ pc = "enrich"
    /\ fpc = "returned"
    /\ LET r == ExtractRecord(companies[eidx], fres.html) IN
         IF r.kind = "return"
         THEN /\ enriched' = AddRecord(enriched, r.value)
              /\ outcomes' = Append(outcomes, "record")
              /\ eidx' = eidx + 1
         ELSE /\ outcomes' = Append(outcomes, "extract_failed")
              /\ eidx' = AfterFailure(eidx)
              /\ UNCHANGED enriched
    /\ fpc' = "idle"
    /\ UNCHANGED << pc, discVars, attempt, attemptsMade, waits, warned,
                    fetchDriversOpen, fres, csvRows >>

\* _fetch_html raised: the except clause, lines 218-219
EnrichCatch ==
    /\ pc = "enrich"
    /\ fpc = "raised"
    /\ outcomes' = Append(outcomes, "fetch_failed")
    /\ eidx' = AfterFailure(eidx)
    /\ fpc' = "idle"
    /\ UNCHANGED << pc, discVars, attempt, attemptsMade, waits, warned,
                    fetchDriversOpen, fres, enriched, csvRows >>

\* return enriched
EnrichReturn ==
    /\ pc = "enrich"
    /\ fpc = "idle"
    /\ eidx > Len(companies)
    /\ pc' = "report"
    /\ UNCHANGED << discVars, fetchVars, enrichVars, csvRows >>

\* ------------------------------------------------------------------- main
\* lines 230-246: the counts are logged and the rows written
WriteCsv ==
    /\ pc = "report"
    /\ csvRows' = enriched
    /\ pc' = "done"
    /\ UNCHANGED << discVars, fetchVars, enrichVars >>

Next ==
    \/ MakeDriver
    \/ GetPage
    \/ ScrollInit
    \/ ScrollStep
    \/ ScrollFinish
    \/ FindBlocks
    \/ CollectBlock
    \/ CollectReturn
    \/ CollectRaise
    \/ EnrichCall
    \/ FetchAttempt
    \/ FetchBackoffDone
    \/ EnrichExtract
    \/ EnrichCatch
    \/ EnrichReturn
    \/ WriteCsv

Spec == Init /\ [][Next]_vars

\* ------------------------------------------- discovery on any listing page
InitDiscovery ==
    /\ pc = "make_driver"
    /\ page \in ListingPages
    /\ docHeight = page.height
    /\ revealed = page.shown
    /\ discDriverOpen = FALSE
    /\ view = 0 /\ total = 0 /\ pos = 0 /\ scrollIters = 0
    /\ blocks = <<>> /\ bidx = 1
    /\ companies = <<>>
    /\ fpc = "idle" /\ attempt = 0 /\ attemptsMade = 0 /\ waits = <<>>
    /\ warned = <<>>
    /\ fetchDriversOpen = 0
    /\ fres = FetchReturn(NoPage)
    /\ eidx = 1 /\ enriched = <<>> /\ outcomes = <<>>
    /\ csvRows = <<>>

NextDiscovery ==
    \/ MakeDriver
    \/ GetPage
    \/ ScrollInit
    \/ ScrollStep
    \/ ScrollFinish
    \/ FindBlocks
    \/ CollectBlock
    \/ CollectReturn
    \/ CollectRaise

SpecDiscovery == InitDiscovery /\ [][NextDiscovery]_vars

\* -------------------------------------------- extraction on any parsed page
AnchorKinds ==
    { Anchor(TRUE, <<"language", " ", "Website">>, <<"http", "acme.com">>),
      Anchor(TRUE, <<" ", "Language">>, <<" ", "http", "acme.org", " ">>),
      Anchor(FALSE, <<"LinkedIn">>, <<"http", "linkedin.com", "/acme">>),
      Anchor(FALSE, <<"Partners">>, <<"http", "vivatechnology.com", "/partners">>),
      Anchor(FALSE, <<"Privacy">>, <<"http", "acme.com", "/", "Privacy">>),
      Anchor(FALSE, <<"Home">>, <<"/">>),
      Anchor(FALSE, <<"Blog">>, <<"http", "other.io">>),
      [labelSpan |-> FALSE, text |-> <<"Top">>, hasHref |-> FALSE, href |-> <<>>] }

AnchorLists == UNION { SeqsOfLen(AnchorKinds, n) : n \in 0..MaxAnchors }

\* the span.ml-1.uppercase elements a page can hold: where each sits, and a
\* text that is empty once stripped, a quoted one, or a plain one
BoothKinds ==
    [ inTextXs : BOOLEAN, afterSymbols : BOOLEAN,
      text : { <<"dq", "dq">>, <<" ", "lq", "C3", "rq">>, <<"A1">> } ]

BoothLists == UNION { SeqsOfLen(BoothKinds, n) : n \in 0..MaxBooths }

ChipTexts == { <<"Energy">>, <<"Edtech">>, <<" ", "Edtech", " ">> }

ChipLists == UNION { SeqsOfLen(ChipTexts, n) : n \in 0..MaxChips }

\* The parsed pages of SpecExtract: every anchor list on a page with a booth
\* and chips or without, and every booth list and every chip list on a page
\* whose anchors are none or on the site's own domain.
ExtractPages ==
    LET someBooths == << [inTextXs |-> TRUE, afterSymbols |-> FALSE,
                          text |-> <<"dq", "dq">>],
                         [inTextXs |-> FALSE, afterSymbols |-> TRUE,
                          text |-> <<" ", "lq", "C3", "rq">>] >>
        someChips == << <<"Energy">>, <<" ", "Edtech">>, <<"Energy">> >>
        ownAnchors == << Anchor(FALSE, <<"Partners">>,
                                <<"http", "vivatechnology.com", "/partners">>) >>
    IN  [ anchors : AnchorLists, booths : { <<>>, someBooths },
          chips : { <<>>, someChips }, overview : { <<>> } ]
        \cup [ anchors : { <<>>, ownAnchors }, booths : BoothLists,
               chips : { <<>> }, overview : { <<>> } ]
        \cup [ anchors : { <<>>, ownAnchors }, booths : { <<>> },
               chips : ChipLists,
               overview : { <<>>, << <<" ", "We", " ", "build">>, <<"More">> >> } ]

\* enrich_companies on one company, at the point where _fetch_html has
\* returned the page source
InitExtract ==
    /\ pc = "enrich"
    /\ page = CHOOSE p \in MainPages : p.items = 1 /\ p.shown = 1 /\ p.prompt
    /\ docHeight = 1 /\ revealed = 1
    /\ discDriverOpen = FALSE
    /\ view = 1 /\ total = 1 /\ pos = 1 /\ scrollIters = 1
    /\ blocks \in SeqsOfLen({b \in BlockKinds : ParseBlock(b).kind = "return"
                                               /\ ParseBlock(b).value # <<>>}, 1)
    /\ bidx = 2
    /\ companies = ParseBlock(blocks[1]).value
    /\ fpc = "returned" /\ attempt = 1 /\ attemptsMade = 1 /\ waits = <<>>
    /\ warned = <<>>
    /\ fetchDriversOpen = 0
    /\ fres \in { FetchReturn(html) : html \in ExtractPages }
    /\ eidx = 1 /\ enriched = <<>> /\ outcomes = <<>>
    /\ csvRows = <<>>

NextExtract ==
    \/ EnrichExtract
    \/ EnrichReturn
    \/ WriteCsv

SpecExtract == InitExtract /\ [][NextExtract]_vars

\* ================================================================= claims
RECURSIVE SumSeq(_)
SumSeq(q) == IF q = <<>> THEN 0 ELSE Head(q) + SumSeq(Tail(q))

\* C1: a fetch whose every attempt fails makes exactly MAX_RETRIES attempts
\* and then raises: no state has more attempts than MAX_RETRIES, no attempt is
\* pending once MAX_RETRIES were made, and in the raised state exactly
\* MAX_RETRIES attempts were made, each of them failed, and no HTML is returned.
C1_ExhaustedAfterMaxRetries ==
    /\ attemptsMade <= MAX_RETRIES
    /\ fpc = "attempt" => attemptsMade < MAX_RETRIES
    /\ fpc = "raised" => /\ attemptsMade = MAX_RETRIES
                         /\ Len(waits) = MAX_RETRIES
                         /\ fres.kind = "raise"

C1_Witness ==
    /\ fpc = "raised"
    /\ attemptsMade = 3
    /\ fres.kind = "raise"

\* C2: every backoff wait is followed by a retry: the fetcher never waits
\* after its last attempt, and the waits of an always-failing fetch add up to
\* the waits before the retries, 2*1 + ... + 2*(MAX_RETRIES-1).
C2_EveryWaitPrecedesRetry ==
    /\ fpc = "backoff" => attempt < MAX_RETRIES
    /\ fpc = "raised" =>
         SumSeq(waits) = SumSeq([i \in 1..(MAX_RETRIES - 1) |-> 2 * i])

\* the name, url and startup of a record of enrich_companies
CompanyOf(r) == [name |-> r.name, url |-> r.url, startup |-> r.startup]

RECURSIVE KeptUpTo(_)
\* the companies among the first k whose fetch and extraction succeeded
KeptUpTo(k) ==
    IF k = 0 THEN <<>>
    ELSE KeptUpTo(k - 1)
         \o (IF outcomes[k] = "record" THEN <<companies[k]>> ELSE <<>>)

\* C3: enrich_companies goes through every link whatever fails: the records
\* are those of the links processed so far that fetched and extracted, one
\* each and none for a failed link, and when it returns every link has been
\* processed.
C3_FailuresAreIsolated ==
    /\ Len(outcomes) <= Len(companies)
    /\ Len(enriched) = Len(KeptUpTo(Len(outcomes)))
    /\ \A i \in 1..Len(enriched) :
         CompanyOf(enriched[i]) = KeptUpTo(Len(outcomes))[i]
    /\ pc \in {"report", "done"} => Len(outcomes) = Len(companies)

C3_Witness ==
    /\ pc = "done"
    /\ Len(companies) = 2
    /\ outcomes = <<"fetch_failed", "record">>
    /\ Len(csvRows) = 1
    /\ CompanyOf(csvRows[1]) = companies[2]

\* C4: whenever _fetch_html has returned or raised, or waits in backoff, no
\* driver it made is still open.
C4_FetchDriversTornDown ==
    fpc \in {"returned", "raised", "backoff"} => fetchDriversOpen = 0

\* C5: the scroll loop never runs more than 600 iterations, whatever the page.
C5_ScrollWithinCap == scrollIters <= 600

\* C6: on a page with a fixed number of lazily revealed blocks, the blocks
\* queried after the scroll are all of them (stated for the pages that append
\* at once, which favours the scroll).
C6_AllItemsQueried ==
    (pc = "blocks" /\ ~page.endless /\ page.prompt) => Len(blocks) = page.items

\* C7: no two entries of the list collect_sector_companies builds have the
\* same url.
C7_NoDuplicateUrls ==
    \A i, j \in 1..Len(companies) :
        i # j => companies[i].url # companies[j].url

\* C8: extraction never fails: no fetched page ends in the except clause of
\* enrich_companies, every one of them gives a record.
C8_ExtractionNeverFails ==
    \A i \in 1..Len(outcomes) : outcomes[i] # "extract_failed"

\* the denylisted social and tracking domains among the tokens of the model
SocialDomains == {"linkedin.com"}

IsSocialHref(h) == \E i \in 1..Len(h) : h[i] \in SocialDomains

IsAbsolute(h) == StartsWithHttp(Strip(h))

\* an anchor labelled as the language/website link
IsWebsiteLabel(a) ==
    a.hasHref /\ a.labelSpan /\ Contains(Lower(a.text), "language")

\* an absolute target outside the site and outside the denylist
IsExternalTarget(h) ==
    IsAbsolute(h) /\ ~Contains(h, "vivatechnology.com") /\ ~IsSocialHref(h)

LabelledTargets(anchors) ==
    SelectSeq(anchors, LAMBDA a : IsWebsiteLabel(a) /\ IsExternalTarget(a.href))

\* C9: when the page holds an anchor labelled as the website link with an
\* absolute external target, the record's homepage is the target of the first
\* such anchor, whatever comes before it in the document.
C9_LabelledHomepageWins ==
    (Len(outcomes) = 1 /\ LabelledTargets(fres.html.anchors) # <<>>) =>
        /\ outcomes[1] = "record"
        /\ enriched[1].homepage = Strip(LabelledTargets(fres.html.anchors)[1].href)

\* a target the homepage must never be: denylisted, on the site's own domain,
\* or a privacy or cookie link
IsDeniedTarget(h) ==
    \/ IsSocialHref(h)
    \/ Contains(h, "vivatechnology.com")
    \/ Contains(Lower(h), "privacy")
    \/ Contains(Lower(h), "cookie")

\* C10: when every absolute anchor of the page points to a denied target (and
\* there is one), the homepage of the record is the empty string.
C10_DeniedOnlyGivesEmpty ==
    LET anchors == fres.html.anchors
        absolute == SelectSeq(anchors, LAMBDA a : a.hasHref /\ IsAbsolute(a.href))
    IN  ( /\ Len(outcomes) = 1
          /\ absolute # <<>>
          /\ \A i \in 1..Len(absolute) : IsDeniedTarget(absolute[i].href) ) =>
            /\ outcomes[1] = "record"
            /\ enriched[1].homepage = <<>>

\* a block that carries a category of TARGET_CATEGORIES
BlockHasTarget(b) ==
    /\ b.hasCatDiv
    /\ \E i \in 1..Len(b.cats) :
         \E c \in TARGET_CATEGORIES : Strip(b.cats[i]) = <<c>>

\* the blocks among the first k that carry a target category and whose
\* elements can all be read
Collected(k) ==
    SelectSeq(SubSeq(blocks, 1, k),
              LAMBDA b : BlockHasTarget(b) /\ b.hasNameEl /\ b.hasHref)

\* C11: the startup flag of a collected company is "startup" exactly when its
\* block holds the startup pill and the pill's text contains "startup",
\* whatever the case; "startup" in other text of the block gives no flag.
C11_StartupFlagFromBadgeOnly ==
    \A i \in 1..Len(companies) :
        i <= Len(Collected(bidx - 1)) =>
            LET b == Collected(bidx - 1)[i] IN
            (companies[i].startup = <<"startup">>)
                <=> ( /\ b.hasFlexDiv /\ b.flexIsBadge
                      /\ Contains(Lower(b.flexText), "startup") )

\* C13: the companies collected are those of the blocks parsed so far that
\* carry a target category, in order, one each: a block with no target
\* category gives none, and a block whose parsing raises gives none and does
\* not stop the blocks after it.
C13_OnlyTargetBlocksCollected ==
    LET kept == Collected(bidx - 1) IN
    /\ bidx <= Len(blocks) + 1
    /\ pc \in {"enrich", "report", "done"} => bidx = Len(blocks) + 1
    /\ Len(companies) = Len(kept)
    /\ \A i \in 1..Len(companies) :
         /\ BlockHasTarget(kept[i])
         /\ companies[i].name = Strip(kept[i].name)

C13_Witness ==
    /\ pc = "enrich"
    /\ Len(blocks) = 3
    /\ ~blocks[1].hasCatDiv
    /\ blocks[2].hasCatDiv /\ ~BlockHasTarget(blocks[2])
    /\ BlockHasTarget(blocks[3])
    /\ Len(companies) = 1
    /\ companies[1].name = Strip(blocks[3].name)

RECURSIVE FirstOccurrences(_, _)
\* the texts of q from index i on that occur at no earlier index of q
FirstOccurrences(q, i) ==
    IF i > Len(q) THEN <<>>
    ELSE (IF \E j \in 1..(i - 1) : q[j] = q[i] THEN <<>> ELSE <<q[i]>>)
         \o FirstOccurrences(q, i + 1)

\* C12: the categories of a record are the chip texts of the page, each
\* distinct text once, at the place of its first occurrence, joined by ", ":
\* nothing repeated, nothing dropped, nothing added.
C12_CategoriesFirstSeenOnce ==
    (Len(outcomes) = 1 /\ outcomes[1] = "record") =>
        enriched[1].categories_detail
            = Join(FirstOccurrences(StripAll(fres.html.chips), 1), ", ")

C12_Witness ==
    /\ Len(outcomes) = 1 /\ outcomes[1] = "record"
    /\ fres.html.chips = << <<"Energy">>, <<" ", "Edtech", " ">>, <<"Energy">> >>
    /\ enriched[1].categories_detail = <<"Energy", ", ", "Edtech">>

\* the stripped text of the first element that selector k matches, empty
\* when it matches none
BoothYield(els, k) ==
    LET m == SelectSeq(els, LAMBDA el : Matches(BoothSelectors[k], el)) IN
    IF m = <<>> THEN <<>> ELSE StripQuotes(Strip(m[1].text))

\* C17: the booth of a record is the quote-stripped text that the first of
\* the three selectors, in their order, yields non-empty; a selector whose
\* match has an empty text is passed over, and the booth is empty only when
\* no selector yields a text.
C17_BoothFirstNonEmptySelector ==
    (Len(outcomes) = 1 /\ outcomes[1] = "record") =>
        LET els == fres.html.booths
            hits == { k \in 1..Len(BoothSelectors) : BoothYield(els, k) # <<>> }
        IN  /\ hits = {} => enriched[1].booth = <<>>
            /\ hits # {} =>
                 \E k \in hits :
                    /\ \A h \in hits : k <= h
                    /\ enriched[1].booth = BoothYield(els, k)

C17_Witness ==
    /\ Len(outcomes) = 1 /\ outcomes[1] = "record"
    /\ fres.html.booths
         = << [inTextXs |-> TRUE, afterSymbols |-> FALSE, text |-> <<"dq", "dq">>],
              [inTextXs |-> FALSE, afterSymbols |-> TRUE,
               text |-> <<" ", "lq", "C3", "rq">>] >>
    /\ enriched[1].booth = <<"C3">>

\* C15: after a rendering failure in discovery main is in its except clause
\* with the discovery driver closed, no page fetched, no record and no CSV
\* row, and it stays there: nothing is loaded again.
C15_DiscoveryFailureIsFatal ==
    /\ [](pc = "main_error" =>
            /\ ~discDriverOpen
            /\ fpc = "idle" /\ attemptsMade = 0 /\ fetchDriversOpen = 0
            /\ outcomes = <<>> /\ enriched = <<>>
            /\ csvRows = <<>>)
    /\ [][pc = "main_error" => pc' = "main_error"]_vars

C15_Witness ==
    /\ pc = "main_error"
    /\ scrollIters >= 1
    /\ revealed >= 1
    /\ ~discDriverOpen
    /\ csvRows = <<>>

\* C16: the exception a fetch raises after its last attempt carries the error
\* of that attempt.
C16_RaiseCarriesLastError ==
    fpc = "raised" =>
        /\ warned # <<>>
        /\ Contains(fres.error, warned[Len(warned)])

\* C18: a fetch that has returned made its first successful attempt last: the
\* attempts before it all failed, the waits after them are 2*1, 2*2, ... in
\* order, the result is the page source, and never more than 3 attempts are
\* made.
C18_FirstSuccessEndsFetch ==
    /\ attemptsMade <= 3
    /\ fpc = "returned" =>
         /\ fres.kind = "return"
         /\ attemptsMade = attempt
         /\ Len(warned) = attemptsMade - 1
         /\ Len(waits) = attemptsMade - 1
         /\ \A i \in 1..Len(waits) : waits[i] = 2 * i

C18_Witness ==
    /\ fpc = "returned"
    /\ attemptsMade = 3
    /\ waits = <<2, 4>>
    /\ fres.kind = "return"

\* the indices of the companies processed so far that gave a record, ascending
RecordPositions ==
    SelectSeq([k \in 1..Len(outcomes) |-> k], LAMBDA k : outcomes[k] = "record")

\* C19: the links are processed one at a time in input order (the index of
\* the link being processed is the number of links done plus one), the i-th
\* record is that of the i-th link that gave one, and it has the name, url
\* and startup of that link.
C19_RecordsInInputOrder ==
    /\ eidx = Len(outcomes) + 1
    /\ fpc # "idle" => eidx <= Len(companies)
    /\ Len(enriched) = Len(RecordPositions)
    /\ \A i \in 1..Len(enriched) :
         /\ enriched[i].name = companies[RecordPositions[i]].name
         /\ enriched[i].url = companies[RecordPositions[i]].url
         /\ enriched[i].startup = companies[RecordPositions[i]].startup

C19_Witness ==
    /\ pc = "done"
    /\ Len(companies) = 2
    /\ companies[1] # companies[2]
    /\ Len(enriched) = 2
    /\ CompanyOf(enriched[1]) = companies[1]
    /\ CompanyOf(enriched[2]) = companies[2]

\* a listing page that does not change: every block is rendered at load and
\* the document never grows
IsStatic(p) == p.shown = p.items /\ ~p.endless

\* the absolute url of a block's profile link
CanonicalUrl(h) == IF StartsWithHttp(h) THEN h ELSE BASE_URL \o h

\* C14: on a static listing page what discovery does is a function of the
\* page alone, so any two runs on it agree: the k-th scroll position is
\* (k-1) * innerHeight, the loop makes ceil(height / innerHeight) iterations,
\* the page is left as it was, and the links returned are the urls of the
\* page's collectable blocks, in order.
C14_StaticPageDeterministic ==
    IsStatic(page) =>
        /\ docHeight = page.height /\ revealed = page.shown
        /\ pc = "scroll" => pos = scrollIters * page.view /\ total = page.height
        /\ pc \in {"find_blocks", "blocks", "enrich"} =>
             scrollIters = (page.height + page.view - 1) \div page.view
        /\ pc \in {"blocks", "enrich"} => Len(blocks) = page.items
        /\ Len(companies) = Len(Collected(bidx - 1))
        /\ \A i \in 1..Len(companies) :
             companies[i].url = CanonicalUrl(Collected(bidx - 1)[i].href)

C14_Witness ==
    /\ IsStatic(page)
    /\ page.height = 3 /\ page.view = 2 /\ page.items = 1
    /\ pc = "enrich"
    /\ scrollIters = 2
    /\ Len(companies) = 1

====
